---------------------------- MODULE Spec2Model ----------------------------
(***************************************************************************)
(* Model of src/bot.py (TelegramOTPFetcher): the polling reconciliation    *)
(* cycle send_success_numbers_to_group with its dedup ledger sent_numbers, *)
(* the upstream fetch, and the inbound handler handle_message.             *)
(***************************************************************************)
EXTENDS Integers, Sequences, FiniteSets, TLC

\* ------------------------------------------------------------------ bounds
\* longest upstream page the model fetches
MaxPage == 3
\* most send_message calls handle_message makes in one behaviour
MaxInbound == 1
\* most words of a text given to extract_otp on its own
MaxWords == 3
\* longest phone number given to the masking functions on their own
MaxPhone == 11
\* longest page an overlapping second invocation of the cycle fetches
MaxPage2 == 2

\* ------------------------------------------------------------- the domain
None == "None"

\* truthy record ids the upstream API may return
Ids == {"a", "b"}
\* a missing / null / empty id: n.get("id") is falsy
Falsy == ""

\* an element of data.numbers: a dict with an id, or something that is no
\* dict at all (n.get raises AttributeError)
Rec(x) == [dict |-> TRUE, id |-> x]
NotADict == [dict |-> FALSE, id |-> Falsy]
Entries == {Rec(x) : x \in Ids \cup {Falsy}} \cup {NotADict}

RECURSIVE SeqsUpTo(_, _)
SeqsUpTo(S, n) ==
    IF n = 0 THEN {<<>>}
    ELSE LET shorter == SeqsUpTo(S, n - 1)
         IN  shorter \cup {Append(s, x) : s \in {t \in shorter : Len(t) = n - 1}, x \in S}

Pages == SeqsUpTo(Entries, MaxPage)

\* what the GET on /success-numbers can end in
Outcomes == {"ok", "http_error", "transport_error", "bad_json"}

\* the configured destination (self.chat_id) and another chat
ChatId == "-1001"
Chats == {ChatId, "-2002"}

\* ------------------------------------------------------------- extract_otp
\* texts are sequences of one-character strings
Digits == {"0", "1", "2", "3", "4", "5", "6", "7", "8", "9"}
LowerCase == <<"a", "b", "c", "d", "e", "f", "g", "h", "i", "j", "k", "l", "m",
               "n", "o", "p", "q", "r", "s", "t", "u", "v", "w", "x", "y", "z">>
UpperCase == <<"A", "B", "C", "D", "E", "F", "G", "H", "I", "J", "K", "L", "M",
               "N", "O", "P", "Q", "R", "S", "T", "U", "V", "W", "X", "Y", "Z">>
Range(f) == {f[k] : k \in DOMAIN f}
Letters == Range(LowerCase) \cup Range(UpperCase)
\* the case folding of re.IGNORECASE
Lower(c) ==
    IF c \in Range(UpperCase)
    THEN LowerCase[CHOOSE k \in DOMAIN UpperCase : UpperCase[k] = c]
    ELSE c
\* [A-Z0-9] under re.IGNORECASE
Alnums == Digits \cup Letters
\* \w, which decides where \b holds
IsWordChar(c) == c \in Alnums \cup {"_"}
\* [:\s]
Seps == {":", " "}
\* the result of a search that found nothing (a match is never empty)
NoMatch == <<>>

\* \b holds between positions i-1 and i of t (1-based; i in 1..Len(t)+1)
Boundary(t, i) ==
    LET before == i > 1 /\ IsWordChar(t[i - 1])
        after  == i <= Len(t) /\ IsWordChar(t[i])
    IN  before # after

\* \b\d{4,8}\b and \b[A-Z0-9]{4,8}\b: the matches of \bC{4,8}\b starting at i,
\* as the set of their lengths (greedy: the longest is the match)
\* the same for \bC{3,8}\b
TokenLensFrom3(t, i, class) ==
    {n \in 3..8 : /\ i + n - 1 <= Len(t)
                  /\ Boundary(t, i)
                  /\ \A k \in i..(i + n - 1) : t[k] \in class
                  /\ Boundary(t, i + n)}
TokenLens(t, i, class) ==
    {n \in 4..8 : /\ i + n - 1 <= Len(t)
                  /\ Boundary(t, i)
                  /\ \A k \in i..(i + n - 1) : t[k] \in class
                  /\ Boundary(t, i + n)}

Max(S) == CHOOSE x \in S : \A y \in S : y <= x
Min(S) == CHOOSE x \in S : \A y \in S : x <= y

\* re.findall(pattern, text)[0] for the two bare-token patterns, or NoMatch
FirstToken(t, class) ==
    LET starts == {i \in 1..Len(t) : TokenLens(t, i, class) # {}}
    IN  IF starts = {} THEN NoMatch
        ELSE LET i == Min(starts)
             IN  SubSeq(t, i, i + Max(TokenLens(t, i, class)) - 1)

\* the (lower-case) label matches t at position i, ignoring case
StartsWith(t, i, label) ==
    /\ i + Len(label) - 1 <= Len(t)
    /\ \A k \in 1..Len(label) : Lower(t[i + k - 1]) = label[k]

\* the end of the longest run of characters of a class starting at i
\* (i - 1 when there is none)
RECURSIVE RunEnd(_, _, _)
RunEnd(t, i, class) ==
    IF i <= Len(t) /\ t[i] \in class THEN RunEnd(t, i + 1, class) ELSE i - 1

\* label[:\s]*(\d+): the captured group of the leftmost match, or NoMatch
FirstLabeled(t, label) ==
    LET digitsFrom(i) == RunEnd(t, i + Len(label), Seps) + 1
        matches(i) == /\ StartsWith(t, i, label)
                      /\ RunEnd(t, digitsFrom(i), Digits) >= digitsFrom(i)
        starts == {i \in 1..Len(t) : matches(i)}
    IN  IF starts = {} THEN NoMatch
        ELSE LET i == Min(starts)
             IN  SubSeq(t, digitsFrom(i), RunEnd(t, digitsFrom(i), Digits))

\* self.otp_patterns, in list order
Bare(class) == [kind |-> class, label |-> <<>>]
Labeled(label) == [kind |-> "label", label |-> label]
otp_patterns ==
    << Bare("digits"),
       Bare("alnum"),
       Labeled(<<"v", "e", "r", "i", "f", "i", "c", "a", "t", "i", "o", "n", " ",
                 "c", "o", "d", "e">>),
       Labeled(<<"y", "o", "u", "r", " ", "c", "o", "d", "e">>),
       Labeled(<<"o", "t", "p">>),
       Labeled(<<"c", "o", "d", "e">>),
       Labeled(<<"p", "i", "n">>) >>

\* re.findall(pattern, text, re.IGNORECASE)[0], or NoMatch
PatternMatch(p, t) ==
    IF p.kind = "digits" THEN FirstToken(t, Digits)
    ELSE IF p.kind = "alnum" THEN FirstToken(t, Alnums)
    ELSE FirstLabeled(t, p.label)

\* the first pattern of the list that matches decides
extract_otp(t) ==
    LET hits == {k \in DOMAIN otp_patterns : PatternMatch(otp_patterns[k], t) # NoMatch}
    IN  IF hits = {} THEN NoMatch ELSE PatternMatch(otp_patterns[Min(hits)], t)

\* message texts the inbound channel delivers
Texts == { <<"o", "t", "p", ":", "1", "2", "3">>,
           <<"4", "8", "2", "9", "1", "3">>,
           <<"h", "i">> }

\* otp = await self.extract_otp(message_text), for each of the texts
OtpOf == [t \in Texts |-> extract_otp(t)]

\* ----------------------------------------------------------------- masking
DigitsOf(str) == SelectSeq(str, LAMBDA c : c \in Digits)
Stars == <<"*", "*", "*", "*", "*">>
Unknown == <<"U", "n", "k", "n", "o", "w", "n">>
NotAvailable == <<"N", "/", "A">>
\* s[:n]
Head_(str, n) == SubSeq(str, 1, IF n < Len(str) THEN n ELSE Len(str))
\* s[-n:]
Tail_(str, n) == SubSeq(str, IF Len(str) > n THEN Len(str) - n + 1 ELSE 1, Len(str))

\* a format_phone_number that shows four leading digits
format_phone_number_4(phone_number) ==
    IF phone_number = <<>> THEN Unknown
    ELSE LET digits == DigitsOf(phone_number)
         IN  IF Len(digits) < 6 THEN phone_number
             ELSE Head_(digits, 4) \o Stars \o Tail_(digits, 3)
\* format_phone_number, the masking of the inbound path
format_phone_number(phone_number) ==
    IF phone_number = <<>> THEN Unknown
    ELSE LET digits == DigitsOf(phone_number)
         IN  IF Len(digits) < 6 THEN phone_number
             ELSE Head_(digits, 3) \o Stars \o Tail_(digits, 3)

\* mask_number, the masking of the upstream path
mask_number(num) ==
    LET clean == DigitsOf(num)
    IN  IF Len(clean) > 6 THEN Head_(clean, 5) \o Stars \o Tail_(clean, 3)
        ELSE IF clean # <<>> THEN clean ELSE NotAvailable

\* masked_phone as the announcement of a cycle shows it
masked_phone(num) ==
    LET m == mask_number(num)
    IN  IF m # <<>> /\ m[1] # "+" THEN <<"+">> \o m ELSE m

\* phone numbers: the leading digits of one number, bare, with "+" and with "-"
PhoneBase == <<"1", "5", "5", "5", "1", "2", "3", "4", "5", "6", "7", "8", "9", "0", "1", "2">>
PhoneInputs ==
    LET bare == {Head_(PhoneBase, n) : n \in 0..MaxPhone}
    IN  bare \cup {<<"+">> \o b : b \in bare}
             \cup {Head_(b, 3) \o <<"-">> \o SubSeq(b, 4, Len(b)) : b \in {c \in bare : Len(c) > 3}}
             \cup {Unknown, NotAvailable}

\* ---------------------------------------------------------- time rendering
DigitChars == <<"0", "1", "2", "3", "4", "5", "6", "7", "8", "9">>
DigitVal(c) == (CHOOSE k \in DOMAIN DigitChars : DigitChars[k] = c) - 1
AllDigits(str) == \A k \in DOMAIN str : str[k] \in Digits
RECURSIVE ToInt(_)
ToInt(str) == IF str = <<>> THEN 0 ELSE 10 * ToInt(SubSeq(str, 1, Len(str) - 1)) + DigitVal(str[Len(str)])
Pad2(n) == <<DigitChars[((n \div 10) % 10) + 1], DigitChars[(n % 10) + 1]>>
Pad4(n) == Pad2(n \div 100) \o Pad2(n % 100)

IsLeap(y) == y % 4 = 0 /\ (y % 100 # 0 \/ y % 400 = 0)
DaysInMonth(y, m) ==
    IF m = 2 THEN (IF IsLeap(y) THEN 29 ELSE 28)
    ELSE IF m \in {4, 6, 9, 11} THEN 30 ELSE 31
\* days before January 1st of year y
DaysBeforeYear(y) == (y - 1) * 365 + (y - 1) \div 4 - (y - 1) \div 100 + (y - 1) \div 400
RECURSIVE DaysBeforeMonth(_, _)
DaysBeforeMonth(y, m) == IF m = 1 THEN 0 ELSE DaysBeforeMonth(y, m - 1) + DaysInMonth(y, m - 1)
\* date.toordinal()
ToOrdinal(y, m, d) == DaysBeforeYear(y) + DaysBeforeMonth(y, m) + d
\* date.fromordinal(n), for a day at most a year away from year y0
FromOrdinal(n, y0) ==
    LET y == CHOOSE yy \in (y0 - 1)..(y0 + 1) :
                 DaysBeforeYear(yy) < n /\ n <= DaysBeforeYear(yy + 1)
        m == CHOOSE mm \in 1..12 :
                 /\ DaysBeforeMonth(y, mm) < n - DaysBeforeYear(y)
                 /\ n - DaysBeforeYear(y) <= DaysBeforeMonth(y, mm) + DaysInMonth(y, mm)
    IN  [y |-> y, m |-> m, d |-> n - DaysBeforeYear(y) - DaysBeforeMonth(y, m)]

NoDate == [ok |-> FALSE, y |-> 0, m |-> 0, d |-> 0, H |-> 0, M |-> 0, S |-> 0]

\* time_str.replace("Z", "+00:00")
RECURSIVE ReplaceZ(_)
ReplaceZ(str) ==
    IF str = <<>> THEN <<>>
    ELSE (IF Head(str) = "Z" THEN <<"+", "0", "0", ":", "0", "0">> ELSE <<Head(str)>>)
         \o ReplaceZ(Tail(str))

\* datetime.fromisoformat on YYYY-MM-DD, YYYY-MM-DD?HH:MM:SS and the latter with
\* the offset +00:00; every other string is a ValueError (ok = FALSE)
fromisoformat(str) ==
    LET n == Len(str)
        dateShape == /\ n >= 10
                     /\ AllDigits(SubSeq(str, 1, 4)) /\ str[5] = "-"
                     /\ AllDigits(SubSeq(str, 6, 7)) /\ str[8] = "-"
                     /\ AllDigits(SubSeq(str, 9, 10))
        timeShape == /\ n >= 19
                     /\ AllDigits(SubSeq(str, 12, 13)) /\ str[14] = ":"
                     /\ AllDigits(SubSeq(str, 15, 16)) /\ str[17] = ":"
                     /\ AllDigits(SubSeq(str, 18, 19))
        utc == <<"+", "0", "0", ":", "0", "0">>
        shape == /\ dateShape
                 /\ \/ n = 10
                    \/ n = 19 /\ timeShape
                    \/ n = 25 /\ timeShape /\ SubSeq(str, 20, 25) = utc
        y == ToInt(SubSeq(str, 1, 4))
        m == ToInt(SubSeq(str, 6, 7))
        d == ToInt(SubSeq(str, 9, 10))
        H == IF n = 10 THEN 0 ELSE ToInt(SubSeq(str, 12, 13))
        M == IF n = 10 THEN 0 ELSE ToInt(SubSeq(str, 15, 16))
        S == IF n = 10 THEN 0 ELSE ToInt(SubSeq(str, 18, 19))
    IN  IF /\ shape
           /\ y >= 1 /\ m \in 1..12 /\ d >= 1 /\ d <= DaysInMonth(y, m)
           /\ H <= 23 /\ M <= 59 /\ S <= 59
        THEN [ok |-> TRUE, y |-> y, m |-> m, d |-> d, H |-> H, M |-> M, S |-> S]
        ELSE NoDate

\* timedelta(hours=6)
OffsetHours == 6

\* an addition that turns the clock and leaves the date
AddOffsetNoCarry(dt) == [dt EXCEPT !.H = (dt.H + OffsetHours) % 24]
\* dt + timedelta(hours=OffsetHours)
AddOffset(dt) ==
    LET total == ToOrdinal(dt.y, dt.m, dt.d) * 24 + dt.H + OffsetHours
        date  == FromOrdinal(total \div 24, dt.y)
    IN  [dt EXCEPT !.y = date.y, !.m = date.m, !.d = date.d, !.H = total % 24]

\* strftime("%d-%m-%Y %I:%M:%S %p")
strftime(dt) ==
    LET h12 == IF dt.H % 12 = 0 THEN 12 ELSE dt.H % 12
    IN  Pad2(dt.d) \o <<"-">> \o Pad2(dt.m) \o <<"-">> \o Pad4(dt.y) \o <<" ">>
        \o Pad2(h12) \o <<":">> \o Pad2(dt.M) \o <<":">> \o Pad2(dt.S) \o <<" ">>
        \o (IF dt.H < 12 THEN <<"A", "M">> ELSE <<"P", "M">>)

\* a time rendering whose except clause raises again
TimeExceptReraise(time_str) == [raised |-> TRUE, text |-> time_str]
\* except Exception: formatted_time = time_str
TimeExcept(time_str) == [raised |-> FALSE, text |-> time_str]

\* formatted_time for a receivedAt of time_str, and whether an exception left
\* the rendering
formatted_time(time_str) ==
    IF time_str = <<>> \/ time_str = NotAvailable
    THEN [raised |-> FALSE, text |-> time_str]
    ELSE LET dt == fromisoformat(ReplaceZ(time_str))
         IN  IF dt.ok THEN [raised |-> FALSE, text |-> strftime(AddOffset(dt))]
             ELSE TimeExcept(time_str)

\* receivedAt values: timestamps of these fields, as YYYY-MM-DDTHH:MM:SS, with
\* and without Z, and strings that are no timestamps
Years == {2023, 2024}
Months == {1, 2, 12}
Days == {1, 28, 29, 31}
Hours == {0, 5, 10, 17, 18, 23}
MinSecs == {0, 59}
Stamps ==
    {[y |-> y, m |-> m, d |-> d, H |-> H, M |-> ms, S |-> ms] :
        y \in Years, m \in Months, d \in Days, H \in Hours, ms \in MinSecs}
ValidStamps == {st \in Stamps : st.d <= DaysInMonth(st.y, st.m)}
Iso(st) ==
    Pad4(st.y) \o <<"-">> \o Pad2(st.m) \o <<"-">> \o Pad2(st.d) \o <<"T">>
    \o Pad2(st.H) \o <<":">> \o Pad2(st.M) \o <<":">> \o Pad2(st.S)
IsoZ(st) == Iso(st) \o <<"Z">>
NotADate == <<"n", "o", "t", "-", "a", "-", "d", "a", "t", "e">>
Malformed ==
    {NotADate,
     <<"2", "0", "2", "4", "-", "1", "3", "-", "0", "1", "T", "1", "0", ":", "0", "0", ":", "0", "0", "Z">>,
     <<"2", "0", "2", "4", "-", "0", "1", "-", "0", "1", "T", "2", "5", ":", "0", "0", ":", "0", "0", "Z">>,
     <<"1", "0", ":", "0", "0">>}
    \cup {IsoZ(st) : st \in Stamps \ ValidStamps}
TimeInputs ==
    {IsoZ(st) : st \in ValidStamps} \cup {Iso(st) : st \in ValidStamps} \cup Malformed
    \cup {NotAvailable, <<>>}

Example20240101T100000Z ==
    <<"2", "0", "2", "4", "-", "0", "1", "-", "0", "1", "T", "1", "0", ":", "0", "0", ":", "0", "0", "Z">>
\* receivedAt of the records the cycles deliver: the well-formed example and a
\* string that is no timestamp
DeliverTimes == {Example20240101T100000Z, NotADate}
\* formatted_time, for each of them
RenderedOf == [t \in DeliverTimes |-> formatted_time(t)]

\* ------------------------------------------------------------ the program
VARIABLES
    stage,          \* "constructed" after __init__, "polling" once run() has scheduled the job
    api_key,        \* self.api_key ("" when not configured)
    start_time,     \* self.start_time: None until run()
    sent_numbers,   \* self.sent_numbers, the ledger
    pc,             \* where send_success_numbers_to_group is: "idle" between invocations
    url,            \* the request the last invocation issued: "scoped", "unscoped" or "none"
    resp,           \* how that request ended (an element of Outcomes), "none" before it has
    numbers,        \* local numbers of the last invocation
    new,            \* local new of the last invocation
    idx,            \* position of the delivering loop in new (1-based)
    calls,          \* history: the send_message calls of the cycles, [id, ok]
    dropped,        \* history: ids that were in new when the except clause ended the cycle
    inbound,        \* history: the send_message calls of handle_message, [src, otp]
    last_update,    \* the update handle_message handled last
    last_time,      \* receivedAt of the record the delivering loop handled last, and
                    \* the formatted_time made of it
    pc2,            \* where an overlapping second invocation of the cycle is
    new2,           \* its local new
    idx2,           \* its position in new2
    fn,             \* the function applied on its own to fn_in ("none" before, and in the program)
    fn_in,          \* its argument, a string
    fn_out          \* its result

progvars == <<stage, api_key, start_time, sent_numbers, pc, url, resp, numbers, new, idx,
              calls, dropped, inbound, last_update, last_time, pc2, new2, idx2>>
job2vars == <<pc2, new2, idx2>>
fnvars == <<fn, fn_in, fn_out>>
vars == <<progvars, fnvars, job2vars>>

ApiKeys == {"", "key"}
\* before the first record is delivered
NoTime == [raw |-> <<>>, shown |-> <<>>]
\* before the first update
NoUpdate == [chat |-> None, text |-> <<>>]

ProgInit ==
    /\ stage = "constructed"
    /\ api_key \in ApiKeys
    /\ start_time = None
    /\ sent_numbers = {}
    /\ pc = "idle"
    /\ url = "none"
    /\ resp = "none"
    /\ numbers = <<>>
    /\ new = <<>>
    /\ idx = 0
    /\ calls = <<>>
    /\ dropped = {}
    /\ inbound = <<>>
    /\ last_update = NoUpdate
    /\ last_time = NoTime
    /\ pc2 = "idle"
    /\ new2 = <<>>
    /\ idx2 = 0

Init == ProgInit /\ fn = "none" /\ fn_in = <<>> /\ fn_out = <<>>

\* datetime.utcnow(): some instant, never None
Epoch == "epoch"

\* a run() that schedules the job without setting start_time
StartTimeUnset == None
\* self.start_time as run() leaves it
StartTimeAtRun == Epoch

\* run(): sets start_time, then schedules the repeating job and starts polling
Run ==
    /\ stage = "constructed"
    /\ stage' = "polling"
    /\ start_time' = StartTimeAtRun
    /\ UNCHANGED <<api_key, sent_numbers, pc, url, resp, numbers, new, idx, calls,
                   dropped, inbound, last_update, last_time, fnvars, job2vars>>

\* a fetch that hands on whatever body came with a failed response
FetchResultAnyBody(outcome, body) == body
\* get_recent_success_numbers[_after_start]: data.numbers of a 200 response with
\* well-formed JSON, [] for everything else
FetchResult(outcome, body) == IF outcome = "ok" THEN body ELSE <<>>

\* a novelty check that lets everything through
IsNewAlways(nid, seen) == TRUE
\* nid not in self.sent_numbers
IsNew(nid, seen) == nid \notin seen

\* a filtering loop without the test of nid
TruthyAlways(nid) == TRUE
\* bool(nid)
Truthy(nid) == nid # Falsy

\* an id is marked seen without its record being kept
KeepNothing(kept, n) == kept
\* new.append(n)
Keep(kept, n) == Append(kept, n)

\* a filtering loop that never records what it kept
MarkSeenNothing(seen, nid) == seen
\* self.sent_numbers.add(nid)
MarkSeen(seen, nid) == seen \cup {nid}

\* the filtering loop from entry k on: the records kept, the ledger, and whether
\* an exception ended the loop
RECURSIVE FilterFrom(_, _, _, _)
FilterFrom(page, k, kept, seen) ==
    IF k > Len(page) THEN [new |-> kept, seen |-> seen, raised |-> FALSE]
    ELSE LET n == page[k]
         IN  IF ~n.dict THEN [new |-> kept, seen |-> seen, raised |-> TRUE]
             ELSE IF Truthy(n.id) /\ IsNew(n.id, seen)
                  THEN FilterFrom(page, k + 1, Keep(kept, n), MarkSeen(seen, n.id))
                  ELSE FilterFrom(page, k + 1, kept, seen)

Filtering(page, seen) == FilterFrom(page, 1, <<>>, seen)

IdsOf(recs) == {recs[k].id : k \in DOMAIN recs}

\* an except clause that catches the transport's errors only
OuterExceptNarrow(exc) == IF exc = "TelegramError" THEN "idle" ELSE "propagated"
\* except Exception: logs, and the invocation returns normally
OuterExcept(exc) == "idle"

\* an except clause that forgets the failed id, so that it is retried
LedgerForgetsFailed(seen, nid) == seen \ {nid}
\* the except clause leaves self.sent_numbers as it is
LedgerAfterError(seen, nid) == seen

\* the job fires: send_success_numbers_to_group runs up to its request
StartCycle ==
    /\ stage = "polling"
    /\ pc = "idle"
    /\ numbers' = <<>>
    /\ new' = <<>>
    /\ idx' = 0
    /\ resp' = "none"
    /\ IF start_time = None
       THEN IF api_key = ""
            THEN url' = "none" /\ pc' = "idle"
            ELSE url' = "unscoped" /\ pc' = "fetching"
       ELSE url' = "scoped" /\ pc' = "fetching"
    /\ UNCHANGED <<stage, api_key, start_time, sent_numbers, calls, dropped, inbound,
                   last_update, last_time, fnvars, job2vars>>

\* the request ends; on a non-empty page the filtering loop runs at once
\* what a fetch can return when the upstream answers with a body of bodies: how
\* the request went, and the page the cycle gets
FetchedOf(bodies) ==
    {[outcome |-> outcome, page |-> FetchResult(outcome, body)] :
        outcome \in Outcomes, body \in bodies}
Fetched == FetchedOf(Pages)

FetchReturnOf(fetched) ==
    /\ pc = "fetching"
    /\ \E r \in fetched :
         /\ resp' = r.outcome
         /\ numbers' = r.page
         /\ IF r.page = <<>>
            THEN /\ pc' = "idle"
                 /\ UNCHANGED <<sent_numbers, new, idx, dropped>>
            ELSE \E f \in {Filtering(r.page, sent_numbers)} :
                 /\ sent_numbers' = f.seen
                 /\ new' = f.new
                 /\ IF f.raised
                    THEN /\ pc' = OuterExcept("AttributeError")
                         /\ dropped' = dropped \cup IdsOf(f.new)
                         /\ idx' = 0
                    ELSE /\ pc' = IF f.new = <<>> THEN "idle" ELSE "delivering"
                         /\ idx' = IF f.new = <<>> THEN 0 ELSE 1
                         /\ UNCHANGED dropped
    /\ UNCHANGED <<stage, api_key, start_time, url, calls, inbound, last_update, last_time,
                   fnvars, job2vars>>

FetchReturn == FetchReturnOf(Fetched)

\* one turn of the delivering loop: the announcement of new[idx] is built, with
\* the record's receivedAt rendered, and send_message is awaited; if it raises,
\* the except clause ends the cycle
Deliver ==
    /\ pc = "delivering"
    /\ \E ok \in BOOLEAN, time_str \in DeliverTimes :
         LET t == RenderedOf[time_str]
         IN  /\ last_time' = [raw |-> time_str, shown |-> t.text]
             /\ idx' = idx + 1
             /\ IF t.raised
                THEN /\ pc' = OuterExcept("ValueError")
                     /\ sent_numbers' = LedgerAfterError(sent_numbers, new[idx].id)
                     /\ dropped' = dropped \cup IdsOf(SubSeq(new, idx, Len(new)))
                     /\ UNCHANGED calls
                ELSE /\ calls' = Append(calls, [id |-> new[idx].id, ok |-> ok])
                     /\ IF ok
                        THEN /\ pc' = IF idx = Len(new) THEN "idle" ELSE "delivering"
                             /\ UNCHANGED <<sent_numbers, dropped>>
                        ELSE /\ pc' = OuterExcept("TelegramError")
                             /\ sent_numbers' = LedgerAfterError(sent_numbers, new[idx].id)
                             /\ dropped' = dropped \cup IdsOf(SubSeq(new, idx + 1, Len(new)))
    /\ UNCHANGED <<stage, api_key, start_time, url, resp, numbers, new, inbound,
                   last_update, fnvars, job2vars>>

\* a chat guard that lets every chat through
MonitoredAny(chat) == TRUE
\* chat_id == self.chat_id
Monitored(chat) == chat = ChatId

\* the send_message calls handle_message makes for an update of chat whose
\* text extract_otp turned into otp
InboundCalls(chat, otp) ==
    IF Monitored(chat) /\ otp # NoMatch THEN <<[src |-> chat, otp |-> otp]>> ELSE <<>>

\* a handle_message that keeps its own marks in the ledger
LedgerMarksChat(seen, chat) == seen \cup {chat}
\* self.sent_numbers after handle_message, which never touches it
LedgerAfterInbound(seen, chat) == seen

\* handle_message for one text update
HandleMessage ==
    /\ stage = "polling"
    /\ Len(inbound) < MaxInbound
    /\ \E chat \in Chats, text \in Texts :
         /\ last_update' = [chat |-> chat, text |-> text]
         /\ inbound' = inbound \o InboundCalls(chat, OtpOf[text])
         /\ sent_numbers' = LedgerAfterInbound(sent_numbers, chat)
    /\ UNCHANGED <<stage, api_key, start_time, pc, url, resp, numbers,
                   new, idx, calls, dropped, last_time, fnvars, job2vars>>

Next == Run \/ StartCycle \/ FetchReturn \/ Deliver \/ HandleMessage

\* ---- a second invocation of send_success_numbers_to_group that the job queue
\* starts while the first is still awaiting; its locals end with the invocation
Pages2 == SeqsUpTo(Entries, MaxPage2)
\* what its fetch can return
FetchedShort == FetchedOf(Pages2)
Fetched2 == {r.page : r \in FetchedShort}
\* the first invocation, fetching pages as short
FetchReturnShort == FetchReturnOf(FetchedShort)

StartCycle2 ==
    /\ stage = "polling"
    /\ pc2 = "idle"
    /\ start_time # None
    /\ pc2' = "fetching"
    /\ UNCHANGED <<stage, api_key, start_time, sent_numbers, pc, url, resp, numbers, new,
                   idx, calls, dropped, inbound, last_update, last_time, new2, idx2,
                   fnvars>>

FetchReturn2 ==
    /\ pc2 = "fetching"
    /\ \E page \in Fetched2 : \E f \in {Filtering(page, sent_numbers)} :
         LET goes == page # <<>> /\ ~f.raised /\ f.new # <<>>
         IN  /\ sent_numbers' = IF page = <<>> THEN sent_numbers ELSE f.seen
             /\ dropped' = IF page # <<>> /\ f.raised
                           THEN dropped \cup IdsOf(f.new) ELSE dropped
             /\ pc2' = IF goes THEN "delivering"
                       ELSE IF page # <<>> /\ f.raised THEN OuterExcept("AttributeError")
                       ELSE "idle"
             /\ new2' = IF goes THEN f.new ELSE <<>>
             /\ idx2' = IF goes THEN 1 ELSE 0
    /\ UNCHANGED <<stage, api_key, start_time, pc, url, resp, numbers, new, idx, calls,
                   inbound, last_update, last_time, fnvars>>

Deliver2 ==
    /\ pc2 = "delivering"
    /\ \E ok \in BOOLEAN, time_str \in DeliverTimes :
         LET t    == RenderedOf[time_str]
             more == ~t.raised /\ ok /\ idx2 < Len(new2)
         IN  /\ last_time' = [raw |-> time_str, shown |-> t.text]
             /\ calls' = IF t.raised THEN calls
                         ELSE Append(calls, [id |-> new2[idx2].id, ok |-> ok])
             /\ sent_numbers' = IF t.raised \/ ~ok
                                THEN LedgerAfterError(sent_numbers, new2[idx2].id)
                                ELSE sent_numbers
             /\ dropped' = IF t.raised THEN dropped \cup IdsOf(SubSeq(new2, idx2, Len(new2)))
                           ELSE IF ~ok
                           THEN dropped \cup IdsOf(SubSeq(new2, idx2 + 1, Len(new2)))
                           ELSE dropped
             /\ pc2' = IF more THEN "delivering"
                       ELSE IF t.raised THEN OuterExcept("ValueError")
                       ELSE IF ~ok THEN OuterExcept("TelegramError")
                       ELSE "idle"
             /\ idx2' = IF more THEN idx2 + 1 ELSE 0
             /\ new2' = IF more THEN new2 ELSE <<>>
    /\ UNCHANGED <<stage, api_key, start_time, pc, url, resp, numbers, new, idx, inbound,
                   last_update, fnvars>>

OverlapNext ==
    \/ Run \/ StartCycle \/ FetchReturnShort \/ Deliver \/ HandleMessage
    \/ StartCycle2 \/ FetchReturn2 \/ Deliver2

\* the program with invocations of the cycle that overlap
OverlapSpec == Init /\ [][OverlapNext]_vars

Spec == Init /\ [][Next]_vars

\* the request and send_message are awaited with a timeout, so a started cycle
\* is always resumed
FairSpec == Spec /\ WF_vars(FetchReturn) /\ WF_vars(Deliver)

\* ----------------------------------------------- the functions on their own
\* words the texts are made of
Words == { <<"y", "o", "u", "r">>,
           <<"c", "o", "d", "e", ":">>,
           <<"4", "8", "2", "9", "1", "3">>,
           <<"1", "2", "3", "4">>,
           <<"o", "t", "p">>,
           <<"5", "6", "7">>,
           <<"A", "B", "1", "2">>,
           <<"h", "i">>,
           <<"a", "_", "1", "2", "3", "4">> }

RECURSIVE JoinWords(_)
JoinWords(ws) ==
    IF ws = <<>> THEN <<>>
    ELSE IF Len(ws) = 1 THEN ws[1]
    ELSE ws[1] \o <<" ">> \o JoinWords(Tail(ws))

\* texts of up to MaxWords words, one space between them
TextInputs == {JoinWords(ws) : ws \in SeqsUpTo(Words, MaxWords)}

FnInputs == TextInputs \cup PhoneInputs \cup TimeInputs

FnInit == ProgInit /\ api_key = "" /\ fn = "none" /\ fn_in \in FnInputs /\ fn_out = <<>>

\* extract_otp(text)
ApplyExtractOtp ==
    /\ fn = "none"
    /\ fn' = "extract_otp"
    /\ fn_out' = extract_otp(fn_in)
    /\ UNCHANGED <<progvars, fn_in>>

\* handle_message on an update of the monitored chat with this text
ApplyHandleMessage ==
    /\ fn = "none"
    /\ fn' = "handle_message"
    /\ fn_out' = InboundCalls(ChatId, extract_otp(fn_in))
    /\ UNCHANGED <<progvars, fn_in>>

\* format_phone_number(phone_number)
ApplyFormatPhone ==
    /\ fn = "none"
    /\ fn' = "format_phone_number"
    /\ fn_out' = format_phone_number(fn_in)
    /\ UNCHANGED <<progvars, fn_in>>

\* mask_number(phone_number)
ApplyMaskNumber ==
    /\ fn = "none"
    /\ fn' = "mask_number"
    /\ fn_out' = mask_number(fn_in)
    /\ UNCHANGED <<progvars, fn_in>>

\* mask_number(phone_number) and the "+" the cycle puts before it
ApplyMaskedPhone ==
    /\ fn = "none"
    /\ fn' = "masked_phone"
    /\ fn_out' = masked_phone(fn_in)
    /\ UNCHANGED <<progvars, fn_in>>

\* the time rendering of the delivering loop
ApplyRenderTime ==
    /\ fn = "none"
    /\ fn' = IF formatted_time(fn_in).raised THEN "render_time raised" ELSE "render_time"
    /\ fn_out' = formatted_time(fn_in).text
    /\ UNCHANGED <<progvars, fn_in>>

FnNext ==
    \/ ApplyExtractOtp \/ ApplyHandleMessage
    \/ ApplyFormatPhone \/ ApplyMaskNumber \/ ApplyMaskedPhone
    \/ ApplyRenderTime

FnSpec == FnInit /\ [][FnNext]_vars

\* ------------------------------------------------------------- the claims
WellFormed(page) == \A k \in DOMAIN page : page[k].dict
TruthyIds(page) == {x \in IdsOf(page) : Truthy(x)}
CallIds == [k \in DOMAIN calls |-> calls[k].id]
SentOk(x) == \E k \in DOMAIN calls : calls[k].id = x /\ calls[k].ok
Failed(x) == \E k \in DOMAIN calls : calls[k].id = x /\ ~calls[k].ok
Pending(x) == pc = "delivering" /\ x \in IdsOf(SubSeq(new, idx, Len(new)))
FetchFailures == Outcomes \ {"ok"}

\* the truthy ids of a page, each once, in the order of their first occurrence
RECURSIVE FirstOccurrences(_, _)
FirstOccurrences(page, k) ==
    IF k = 0 THEN <<>>
    ELSE LET before == FirstOccurrences(page, k - 1)
             x == page[k].id
         IN  IF Truthy(x) /\ x \notin Range(before) THEN Append(before, x) ELSE before

\* C1: over any sequence of cycles, send_message is called at most once for any
\* upstream record id.
C1_AtMostOnce ==
    \A i, k \in DOMAIN calls : i # k => calls[i].id # calls[k].id

\* C1 witness: an id that was announced comes back in a later page, and the
\* cycle that fetched it has skipped it.
C1_Witness ==
    /\ resp = "ok" /\ WellFormed(numbers)
    /\ \E x \in IdsOf(numbers) : x \in Range(CallIds) /\ x \notin IdsOf(new)
    /\ new # <<>> /\ pc = "idle"

\* C2: a cycle that starts with an empty ledger and has returned announces each
\* distinct id of its page exactly once, in the order of first occurrence.
C2_OnePerIdInOrder ==
    (/\ pc = "idle" /\ resp = "ok" /\ WellFormed(numbers)
     /\ new # <<>> /\ sent_numbers = IdsOf(new))
    => CallIds = FirstOccurrences(numbers, Len(numbers))

\* C3: a cycle whose page holds only ids the ledger already contains makes no
\* send_message call and leaves the ledger as it is; and a cycle that has run on
\* a page has marked every id of it, so a second run on that page is such a cycle.
C3_Idempotent ==
    /\ [][(/\ pc = "fetching" /\ pc' # "fetching"
           /\ numbers' # <<>> /\ TruthyIds(numbers') \subseteq sent_numbers)
          => (/\ sent_numbers' = sent_numbers /\ new' = <<>>
              /\ pc' = "idle" /\ calls' = calls /\ dropped' = dropped)]_vars
    /\ [](resp = "ok" /\ WellFormed(numbers) => TruthyIds(numbers) \subseteq sent_numbers)

\* C3 witness: a cycle has run on a page of known ids and kept nothing.
C3_Witness ==
    /\ pc = "idle" /\ resp = "ok" /\ WellFormed(numbers)
    /\ TruthyIds(numbers) # {} /\ new = <<>>

\* C4: when a cycle that reached the delivering loop has returned, send_message
\* has been called for every kept record, also for those after a failed one.
C4_FailureDoesNotBlock ==
    (pc = "idle" /\ idx > 0) => \A k \in DOMAIN new : new[k].id \in Range(CallIds)

\* C5 as stated: every id in the ledger has been sent successfully or is
\* pending in the running cycle.
C5_SentOrPending ==
    \A x \in sent_numbers : SentOk(x) \/ Pending(x)

\* C5 as amended: every id in the ledger was queued for dispatch when it was
\* marked seen, and is sent successfully, pending in the running cycle, or lost
\* with its cycle (send_message raised for it, or the cycle ended in the except
\* clause before reaching it).
C5_SentPendingOrLost ==
    \A x \in sent_numbers : SentOk(x) \/ Pending(x) \/ Failed(x) \/ x \in dropped

\* C5 witness: an id stays in the ledger after its send_message call failed.
C5_Witness ==
    \E x \in sent_numbers : Failed(x) /\ ~SentOk(x) /\ ~Pending(x) /\ x \notin dropped

\* C6: a fetch failure ends the cycle with the ledger unchanged, no record kept
\* and no send_message call.
C6_FetchFailureNoEffect ==
    [][(pc = "fetching" /\ resp' \in FetchFailures)
       => (/\ sent_numbers' = sent_numbers /\ calls' = calls /\ dropped' = dropped
           /\ numbers' = <<>> /\ new' = <<>> /\ pc' = "idle")]_vars

\* C6 witness: a cycle has ended on a fetch failure while the ledger held ids.
C6_Witness ==
    pc = "idle" /\ resp \in FetchFailures /\ sent_numbers # {}

\* C7: an id whose send_message call failed is never called for again and is
\* never queued again.
C7_FailedNeverRequeued ==
    /\ \A i, k \in DOMAIN calls : (i < k /\ ~calls[i].ok) => calls[k].id # calls[i].id
    /\ \A x \in Ids : Failed(x) => x \in sent_numbers /\ ~Pending(x)

\* C7 witness: the upstream returns a record again after its delivery failed,
\* and the cycle has passed it over.
C7_Witness ==
    /\ resp = "ok" /\ WellFormed(numbers)
    /\ \E x \in IdsOf(numbers) : Failed(x) /\ x \notin IdsOf(new)

\* C8: no failure leaves a cycle of send_success_numbers_to_group anywhere but back at idle:
\* the cycle is always idle, fetching or delivering, and a started cycle returns.
C8_AlwaysBackToIdle ==
    /\ [](pc \in {"idle", "fetching", "delivering"})
    /\ (pc # "idle") ~> (pc = "idle")

\* C8 witness: after a cycle that ended in a delivery failure, a later cycle
\* has fetched a new id and announced it.
C8_Witness ==
    /\ \E i, k \in DOMAIN calls : i < k /\ ~calls[i].ok /\ calls[k].ok
    /\ pc = "idle" /\ resp = "ok"

\* C9: handle_message calls send_message only for updates of the monitored chat.
C9_OtherChatsIgnored ==
    \A k \in DOMAIN inbound : inbound[k].src = ChatId

\* C9 witness: an update of another chat with an OTP in its text was handled.
C9_Witness ==
    /\ last_update.chat \in Chats \ {ChatId}
    /\ extract_otp(last_update.text) # NoMatch

\* C10: whenever a cycle runs, start_time is set and its request is the scoped
\* one; the unscoped fallback is never used.
C10_FetchScoped ==
    /\ url # "unscoped"
    /\ stage = "polling" => start_time # None
    /\ pc # "idle" => url = "scoped"

\* C10 witness: a cycle is waiting for its scoped request.
C10_Witness ==
    pc = "fetching" /\ url = "scoped" /\ start_time = Epoch

\* the labeled patterns of otp_patterns, in list order
LabeledPatterns == SelectSeq(otp_patterns, LAMBDA p : p.kind = "label")

\* the code a text introduces with a label: the capture of the first labeled
\* pattern that matches, or NoMatch
LabeledCode(t) ==
    LET hits == {k \in DOMAIN LabeledPatterns : FirstLabeled(t, LabeledPatterns[k].label) # NoMatch}
    IN  IF hits = {} THEN NoMatch ELSE FirstLabeled(t, LabeledPatterns[Min(hits)].label)

\* t[i..k] is a run of 4 to 8 numeric or alphanumeric characters
IsCodeRun(t, i, k) ==
    /\ 1 <= i /\ k <= Len(t) /\ k - i + 1 \in 4..8
    /\ \A m \in i..k : t[m] \in Alnums

\* a 4-8 character numeric or alphanumeric token stands in t, delimited by
\* characters that are neither letters, digits nor "_"
HasBareToken(t) ==
    \E i, k \in 1..Len(t) :
        /\ IsCodeRun(t, i, k)
        /\ (i = 1 \/ ~IsWordChar(t[i - 1]))
        /\ (k = Len(t) \/ ~IsWordChar(t[k + 1]))

\* t has a code-like substring: a labeled code, or 4 to 8 numeric or
\* alphanumeric characters in a row
CodeLike(t) ==
    \/ \E i, k \in 1..Len(t) : IsCodeRun(t, i, k)
    \/ \E p \in Range(LabeledPatterns) : \E i \in 1..Len(t) :
          /\ StartsWith(t, i, p.label)
          /\ \E k \in (i + Len(p.label))..Len(t) :
                /\ t[k] \in Digits
                /\ \A m \in (i + Len(p.label))..(k - 1) : t[m] \in Seps

\* C11: for a text with a labeled code and a bare 4-8 character token,
\* extract_otp returns the labeled code.
C11_LabeledCodeWins ==
    (fn = "extract_otp" /\ LabeledCode(fn_in) # NoMatch /\ HasBareToken(fn_in))
    => fn_out = LabeledCode(fn_in)

\* C12: for a text with no code-like substring extract_otp returns None, and
\* handle_message makes no send_message call for it.
C12_NoCodeNoOtp ==
    (fn \in {"extract_otp", "handle_message"} /\ ~CodeLike(fn_in)) => fn_out = <<>>

\* C12 witness: handle_message ran on a text of several words, none code-like.
C12_Witness ==
    fn = "handle_message" /\ ~CodeLike(fn_in) /\ Len(fn_in) > 6

\* out is the first lead digits of d, the mask run, and the last 3 digits of d
ShowsLeadMaskLast3(out, d, lead) ==
    /\ Len(out) = lead + 5 + 3
    /\ \A k \in 1..lead : out[k] = d[k]
    /\ \A k \in 1..5 : out[lead + k] = "*"
    /\ \A k \in 1..3 : out[lead + 5 + k] = d[Len(d) - 3 + k]

Example15551234567 == <<"1", "5", "5", "5", "1", "2", "3", "4", "5", "6", "7">>

\* C13 as stated: masking a number of more than 6 digits returns its first 3
\* digits, '*****' and its last 3 digits, on either path.
C13_First3MaskLast3 ==
    (fn \in {"format_phone_number", "mask_number"} /\ Len(DigitsOf(fn_in)) > 6)
    => ShowsLeadMaskLast3(fn_out, DigitsOf(fn_in), 3)

\* C13 as amended: for a number of more than 6 digits format_phone_number
\* returns the first 3 digits, '*****' and the last 3 digits; mask_number
\* returns the first 5 digits, '*****' and the last 3 digits, which the cycle
\* shows after a '+'.
C13_MaskPerPath ==
    Len(DigitsOf(fn_in)) > 6 =>
        /\ fn = "format_phone_number" => ShowsLeadMaskLast3(fn_out, DigitsOf(fn_in), 3)
        /\ fn = "mask_number" => ShowsLeadMaskLast3(fn_out, DigitsOf(fn_in), 5)
        /\ fn = "masked_phone" =>
              /\ fn_out # <<>> /\ fn_out[1] = "+"
              /\ ShowsLeadMaskLast3(Tail(fn_out), DigitsOf(fn_in), 5)

\* C13 witness: '15551234567' was masked to '155*****567'.
C13_Witness ==
    /\ fn = "format_phone_number" /\ fn_in = Example15551234567
    /\ fn_out = <<"1", "5", "5", "*", "*", "*", "*", "*", "5", "6", "7">>

\* C14: masking a number of 6 digits or less shows its digits with no mask run,
\* and with no '+' that the number did not have.
C14_ShortUnmasked ==
    (/\ fn \in {"format_phone_number", "mask_number"}
     /\ Len(DigitsOf(fn_in)) \in 1..6)
    => /\ DigitsOf(fn_out) = DigitsOf(fn_in)
       /\ "*" \notin Range(fn_out)
       /\ "+" \in Range(fn_out) => "+" \in Range(fn_in)

\* C15: a number that gets masked keeps at least one digit hidden: the digits
\* shown before and after the mask run are fewer than the digits of the number.
C15_MaskHidesADigit ==
    (fn \in {"format_phone_number", "mask_number"} /\ "*" \in Range(fn_out))
    => Len(DigitsOf(fn_out)) < Len(DigitsOf(fn_in))

\* the day after y-m-d
NextDay(y, m, d) ==
    IF d < DaysInMonth(y, m) THEN [y |-> y, m |-> m, d |-> d + 1]
    ELSE IF m < 12 THEN [y |-> y, m |-> m + 1, d |-> 1]
    ELSE [y |-> y + 1, m |-> 1, d |-> 1]

\* st six hours later, as DD-MM-YYYY hh:mm:ss AM/PM on a 12-hour clock
SixHoursLater(st) ==
    LET H    == IF st.H + 6 < 24 THEN st.H + 6 ELSE st.H + 6 - 24
        date == IF st.H + 6 < 24 THEN [y |-> st.y, m |-> st.m, d |-> st.d]
                ELSE NextDay(st.y, st.m, st.d)
        h12  == IF H = 0 THEN 12 ELSE IF H > 12 THEN H - 12 ELSE H
    IN  Pad2(date.d) \o <<"-">> \o Pad2(date.m) \o <<"-">> \o Pad4(date.y) \o <<" ">>
        \o Pad2(h12) \o <<":">> \o Pad2(st.M) \o <<":">> \o Pad2(st.S)
        \o (IF H < 12 THEN <<" ", "A", "M">> ELSE <<" ", "P", "M">>)

Example01012024040000PM ==
    <<"0", "1", "-", "0", "1", "-", "2", "0", "2", "4", " ", "0", "4", ":", "0", "0", ":", "0", "0", " ", "P", "M">>

\* C17: a well-formed UTC receivedAt with a Z suffix is shown six hours later,
\* as DD-MM-YYYY hh:mm:ss AM/PM, across day, month and year ends.
C17_SixHoursLater ==
    fn \in {"render_time", "render_time raised"} =>
        /\ \A st \in ValidStamps :
              fn_in = IsoZ(st) => fn = "render_time" /\ fn_out = SixHoursLater(st)
        /\ fn_in = Example20240101T100000Z => fn_out = Example01012024040000PM

\* C17 witness: a timestamp of 23:59:59 on December 31st was rendered.
C17_Witness ==
    /\ fn = "render_time"
    /\ fn_in = IsoZ([y |-> 2023, m |-> 12, d |-> 31, H |-> 23, M |-> 59, S |-> 59])
    /\ fn_out = <<"0", "1", "-", "0", "1", "-", "2", "0", "2", "4", " ",
                  "0", "5", ":", "5", "9", ":", "5", "9", " ", "A", "M">>

\* C16: a record whose receivedAt is no timestamp does not end the cycle: its
\* turn of the delivering loop shows the raw string as the time and makes the
\* send_message call for the record.
C16_MalformedTimePassesThrough ==
    [][(pc = "delivering" /\ idx' = idx + 1 /\ last_time'.raw = NotADate)
       => (/\ last_time'.shown = NotADate
           /\ Len(calls') = Len(calls) + 1
           /\ calls'[Len(calls')].id = new[idx].id)]_vars

\* C16 witness: the announcement of a record with receivedAt 'not-a-date' was
\* sent, with that string as its time, and the cycle went on to its next record.
C16_Witness ==
    /\ last_time = [raw |-> NotADate, shown |-> NotADate]
    /\ calls # <<>> /\ calls[Len(calls)].ok
    /\ pc = "delivering"

\* C18: handling an update leaves the ledger as it is, and an update of the
\* monitored chat with an OTP is announced whatever the ledger holds.
C18_InboundLeavesLedger ==
    [][(last_update' # last_update \/ inbound' # inbound)
       => /\ sent_numbers' = sent_numbers
          /\ inbound' = inbound \o
                (IF last_update'.chat = ChatId /\ OtpOf[last_update'.text] # NoMatch
                 THEN <<[src |-> ChatId, otp |-> OtpOf[last_update'.text]]>> ELSE <<>>)]_vars

\* C18 witness: an update was announced while the ledger held ids.
C18_Witness ==
    /\ inbound # <<>> /\ sent_numbers = Ids
    /\ last_update.chat = ChatId /\ OtpOf[last_update.text] # NoMatch

\* C19: with overlapping invocations of the cycle, no id is kept by two of them
\* and send_message is called at most once for an id.
C19_OverlapAtMostOnce ==
    /\ \A i, k \in DOMAIN calls : i # k => calls[i].id # calls[k].id
    /\ IdsOf(new) \cap IdsOf(new2) = {}
    /\ pc2 = "delivering" => IdsOf(SubSeq(new2, idx2, Len(new2))) \cap Range(CallIds) = {}
    /\ pc = "delivering" => IdsOf(SubSeq(new, idx, Len(new))) \cap Range(CallIds) = {}

\* C19 witness: two invocations are delivering at once, and the page of the
\* first held an id that the second had kept.
C19_Witness ==
    /\ pc = "delivering" /\ pc2 = "delivering"
    /\ TruthyIds(numbers) \cap IdsOf(new2) # {}

\* C20: a record whose id is falsy is never kept, never marked seen and never
\* announced.
C20_FalsyIdNeverAnnounced ==
    /\ Falsy \notin sent_numbers
    /\ Falsy \notin IdsOf(new)
    /\ Falsy \notin Range(CallIds)
    /\ Falsy \notin dropped

\* C20 witness: a cycle has delivered from a page that began with a record
\* without id.
C20_Witness ==
    /\ resp = "ok" /\ numbers # <<>> /\ numbers[1] = Rec(Falsy)
    /\ pc = "idle" /\ calls # <<>> /\ new # <<>>
=============================================================================
